---------------------------- MODULE Spec2Model ----------------------------
(***************************************************************************)
(* A model of the succinct trie of sutrie.go: the packed bit vector with   *)
(* its rank table and select hints, the level-order builder, the node      *)
(* cursor with its searches, and the gob codec.                            *)
(*                                                                         *)
(* Go slices and strings are sequences; Go index i is TLA+ index i + 1.    *)
(* A nil slice is the empty sequence.  A uint64 word is its eight bytes,   *)
(* least significant first (TLC's integers are 32 bits wide).              *)
(***************************************************************************)
EXTENDS Integers, Sequences, FiniteSets, TLC

\* ------------------------------------------------------------- bounds
\* Keys of a small dictionary have at most MaxLen bytes.
MaxLen == 2
\* A small dictionary has at most MaxKeys entries (duplicates included).
MaxKeys == 3
\* A wide or deep dictionary has at most MaxWide trie edges.
MaxWide == 64
\* A run of consecutive bits set in a bitset has at most MaxRun bits.
MaxRun == 32

\* The result of a call that ended in a Go run-time panic (an index out of
\* range, a nil dereference).  No int32 the code computes equals it.
Abort == -1073741824

\* ------------------------------------------------------------- words
Byte == 0..255

ZeroWord == <<0, 0, 0, 0, 0, 0, 0, 0>>

Pow2(k) == CASE k = 0 -> 1 [] k = 1 -> 2 [] k = 2 -> 4 [] k = 3 -> 8
             [] k = 4 -> 16 [] k = 5 -> 32 [] k = 6 -> 64 [] OTHER -> 128

\* bit k of a byte
ByteBit(x, k) == (x \div Pow2(k)) % 2

\* v & (1 << p) > 0, for a bit position p of 0..63
WordBit(v, p) == ByteBit(v[(p \div 8) + 1], p % 8) = 1

\* v | (1 << p)
WordOr(v, p) ==
  IF WordBit(v, p) THEN v
  ELSE [v EXCEPT ![(p \div 8) + 1] = @ + Pow2(p % 8)]

\* v &^ (1 << p)
WordAndNot(v, p) ==
  IF WordBit(v, p) THEN [v EXCEPT ![(p \div 8) + 1] = @ - Pow2(p % 8)]
  ELSE v

\* v >> (8 * n)
WordShr(v, n) == [j \in 1..8 |-> IF j + n <= 8 THEN v[j + n] ELSE 0]

\* math/bits.OnesCount64
OnesCount8(x) ==
  ByteBit(x, 0) + ByteBit(x, 1) + ByteBit(x, 2) + ByteBit(x, 3)
    + ByteBit(x, 4) + ByteBit(x, 5) + ByteBit(x, 6) + ByteBit(x, 7)

\* the count of the low 32 bits only
OnesCount32(v) ==
  OnesCount8(v[1]) + OnesCount8(v[2]) + OnesCount8(v[3]) + OnesCount8(v[4])

OnesCount64(v) ==
  OnesCount8(v[1]) + OnesCount8(v[2]) + OnesCount8(v[3]) + OnesCount8(v[4])
    + OnesCount8(v[5]) + OnesCount8(v[6]) + OnesCount8(v[7]) + OnesCount8(v[8])

pop8tab ==
  <<0, 1, 1, 2, 1, 2, 2, 3, 1, 2, 2, 3, 2, 3, 3, 4, 1, 2, 2, 3, 2, 3, 3, 4, 2, 3, 3, 4, 3, 4, 4, 5,
    1, 2, 2, 3, 2, 3, 3, 4, 2, 3, 3, 4, 3, 4, 4, 5, 2, 3, 3, 4, 3, 4, 4, 5, 3, 4, 4, 5, 4, 5, 5, 6,
    1, 2, 2, 3, 2, 3, 3, 4, 2, 3, 3, 4, 3, 4, 4, 5, 2, 3, 3, 4, 3, 4, 4, 5, 3, 4, 4, 5, 4, 5, 5, 6,
    2, 3, 3, 4, 3, 4, 4, 5, 3, 4, 4, 5, 4, 5, 5, 6, 3, 4, 4, 5, 4, 5, 5, 6, 4, 5, 5, 6, 5, 6, 6, 7,
    1, 2, 2, 3, 2, 3, 3, 4, 2, 3, 3, 4, 3, 4, 4, 5, 2, 3, 3, 4, 3, 4, 4, 5, 3, 4, 4, 5, 4, 5, 5, 6,
    2, 3, 3, 4, 3, 4, 4, 5, 3, 4, 4, 5, 4, 5, 5, 6, 3, 4, 4, 5, 4, 5, 5, 6, 4, 5, 5, 6, 5, 6, 6, 7,
    2, 3, 3, 4, 3, 4, 4, 5, 3, 4, 4, 5, 4, 5, 5, 6, 3, 4, 4, 5, 4, 5, 5, 6, 4, 5, 5, 6, 5, 6, 6, 7,
    3, 4, 4, 5, 4, 5, 5, 6, 4, 5, 5, 6, 5, 6, 6, 7, 4, 5, 5, 6, 5, 6, 6, 7, 5, 6, 6, 7, 6, 7, 7, 8>>

precomp ==
  <<<<0, 0, 1, 0, 2, 0, 1, 0, 3, 0, 1, 0, 2, 0, 1, 0, 4, 0, 1, 0, 2, 0, 1, 0, 3, 0, 1, 0, 2, 0, 1, 0,
      5, 0, 1, 0, 2, 0, 1, 0, 3, 0, 1, 0, 2, 0, 1, 0, 4, 0, 1, 0, 2, 0, 1, 0, 3, 0, 1, 0, 2, 0, 1, 0,
      6, 0, 1, 0, 2, 0, 1, 0, 3, 0, 1, 0, 2, 0, 1, 0, 4, 0, 1, 0, 2, 0, 1, 0, 3, 0, 1, 0, 2, 0, 1, 0,
      5, 0, 1, 0, 2, 0, 1, 0, 3, 0, 1, 0, 2, 0, 1, 0, 4, 0, 1, 0, 2, 0, 1, 0, 3, 0, 1, 0, 2, 0, 1, 0,
      7, 0, 1, 0, 2, 0, 1, 0, 3, 0, 1, 0, 2, 0, 1, 0, 4, 0, 1, 0, 2, 0, 1, 0, 3, 0, 1, 0, 2, 0, 1, 0,
      5, 0, 1, 0, 2, 0, 1, 0, 3, 0, 1, 0, 2, 0, 1, 0, 4, 0, 1, 0, 2, 0, 1, 0, 3, 0, 1, 0, 2, 0, 1, 0,
      6, 0, 1, 0, 2, 0, 1, 0, 3, 0, 1, 0, 2, 0, 1, 0, 4, 0, 1, 0, 2, 0, 1, 0, 3, 0, 1, 0, 2, 0, 1, 0,
      5, 0, 1, 0, 2, 0, 1, 0, 3, 0, 1, 0, 2, 0, 1, 0, 4, 0, 1, 0, 2, 0, 1, 0, 3, 0, 1, 0, 2, 0, 1, 0>>,
    <<0, 0, 0, 1, 0, 2, 2, 1, 0, 3, 3, 1, 3, 2, 2, 1, 0, 4, 4, 1, 4, 2, 2, 1, 4, 3, 3, 1, 3, 2, 2, 1,
      0, 5, 5, 1, 5, 2, 2, 1, 5, 3, 3, 1, 3, 2, 2, 1, 5, 4, 4, 1, 4, 2, 2, 1, 4, 3, 3, 1, 3, 2, 2, 1,
      0, 6, 6, 1, 6, 2, 2, 1, 6, 3, 3, 1, 3, 2, 2, 1, 6, 4, 4, 1, 4, 2, 2, 1, 4, 3, 3, 1, 3, 2, 2, 1,
      6, 5, 5, 1, 5, 2, 2, 1, 5, 3, 3, 1, 3, 2, 2, 1, 5, 4, 4, 1, 4, 2, 2, 1, 4, 3, 3, 1, 3, 2, 2, 1,
      0, 7, 7, 1, 7, 2, 2, 1, 7, 3, 3, 1, 3, 2, 2, 1, 7, 4, 4, 1, 4, 2, 2, 1, 4, 3, 3, 1, 3, 2, 2, 1,
      7, 5, 5, 1, 5, 2, 2, 1, 5, 3, 3, 1, 3, 2, 2, 1, 5, 4, 4, 1, 4, 2, 2, 1, 4, 3, 3, 1, 3, 2, 2, 1,
      7, 6, 6, 1, 6, 2, 2, 1, 6, 3, 3, 1, 3, 2, 2, 1, 6, 4, 4, 1, 4, 2, 2, 1, 4, 3, 3, 1, 3, 2, 2, 1,
      6, 5, 5, 1, 5, 2, 2, 1, 5, 3, 3, 1, 3, 2, 2, 1, 5, 4, 4, 1, 4, 2, 2, 1, 4, 3, 3, 1, 3, 2, 2, 1>>,
    <<0, 0, 0, 0, 0, 0, 0, 2, 0, 0, 0, 3, 0, 3, 3, 2, 0, 0, 0, 4, 0, 4, 4, 2, 0, 4, 4, 3, 4, 3, 3, 2,
      0, 0, 0, 5, 0, 5, 5, 2, 0, 5, 5, 3, 5, 3, 3, 2, 0, 5, 5, 4, 5, 4, 4, 2, 5, 4, 4, 3, 4, 3, 3, 2,
      0, 0, 0, 6, 0, 6, 6, 2, 0, 6, 6, 3, 6, 3, 3, 2, 0, 6, 6, 4, 6, 4, 4, 2, 6, 4, 4, 3, 4, 3, 3, 2,
      0, 6, 6, 5, 6, 5, 5, 2, 6, 5, 5, 3, 5, 3, 3, 2, 6, 5, 5, 4, 5, 4, 4, 2, 5, 4, 4, 3, 4, 3, 3, 2,
      0, 0, 0, 7, 0, 7, 7, 2, 0, 7, 7, 3, 7, 3, 3, 2, 0, 7, 7, 4, 7, 4, 4, 2, 7, 4, 4, 3, 4, 3, 3, 2,
      0, 7, 7, 5, 7, 5, 5, 2, 7, 5, 5, 3, 5, 3, 3, 2, 7, 5, 5, 4, 5, 4, 4, 2, 5, 4, 4, 3, 4, 3, 3, 2,
      0, 7, 7, 6, 7, 6, 6, 2, 7, 6, 6, 3, 6, 3, 3, 2, 7, 6, 6, 4, 6, 4, 4, 2, 6, 4, 4, 3, 4, 3, 3, 2,
      7, 6, 6, 5, 6, 5, 5, 2, 6, 5, 5, 3, 5, 3, 3, 2, 6, 5, 5, 4, 5, 4, 4, 2, 5, 4, 4, 3, 4, 3, 3, 2>>,
    <<0, 0, 0, 0, 0, 0, 0, 0, 0, 0, 0, 0, 0, 0, 0, 3, 0, 0, 0, 0, 0, 0, 0, 4, 0, 0, 0, 4, 0, 4, 4, 3,
      0, 0, 0, 0, 0, 0, 0, 5, 0, 0, 0, 5, 0, 5, 5, 3, 0, 0, 0, 5, 0, 5, 5, 4, 0, 5, 5, 4, 5, 4, 4, 3,
      0, 0, 0, 0, 0, 0, 0, 6, 0, 0, 0, 6, 0, 6, 6, 3, 0, 0, 0, 6, 0, 6, 6, 4, 0, 6, 6, 4, 6, 4, 4, 3,
      0, 0, 0, 6, 0, 6, 6, 5, 0, 6, 6, 5, 6, 5, 5, 3, 0, 6, 6, 5, 6, 5, 5, 4, 6, 5, 5, 4, 5, 4, 4, 3,
      0, 0, 0, 0, 0, 0, 0, 7, 0, 0, 0, 7, 0, 7, 7, 3, 0, 0, 0, 7, 0, 7, 7, 4, 0, 7, 7, 4, 7, 4, 4, 3,
      0, 0, 0, 7, 0, 7, 7, 5, 0, 7, 7, 5, 7, 5, 5, 3, 0, 7, 7, 5, 7, 5, 5, 4, 7, 5, 5, 4, 5, 4, 4, 3,
      0, 0, 0, 7, 0, 7, 7, 6, 0, 7, 7, 6, 7, 6, 6, 3, 0, 7, 7, 6, 7, 6, 6, 4, 7, 6, 6, 4, 6, 4, 4, 3,
      0, 7, 7, 6, 7, 6, 6, 5, 7, 6, 6, 5, 6, 5, 5, 3, 7, 6, 6, 5, 6, 5, 5, 4, 6, 5, 5, 4, 5, 4, 4, 3>>,
    <<0, 0, 0, 0, 0, 0, 0, 0, 0, 0, 0, 0, 0, 0, 0, 0, 0, 0, 0, 0, 0, 0, 0, 0, 0, 0, 0, 0, 0, 0, 0, 4,
      0, 0, 0, 0, 0, 0, 0, 0, 0, 0, 0, 0, 0, 0, 0, 5, 0, 0, 0, 0, 0, 0, 0, 5, 0, 0, 0, 5, 0, 5, 5, 4,
      0, 0, 0, 0, 0, 0, 0, 0, 0, 0, 0, 0, 0, 0, 0, 6, 0, 0, 0, 0, 0, 0, 0, 6, 0, 0, 0, 6, 0, 6, 6, 4,
      0, 0, 0, 0, 0, 0, 0, 6, 0, 0, 0, 6, 0, 6, 6, 5, 0, 0, 0, 6, 0, 6, 6, 5, 0, 6, 6, 5, 6, 5, 5, 4,
      0, 0, 0, 0, 0, 0, 0, 0, 0, 0, 0, 0, 0, 0, 0, 7, 0, 0, 0, 0, 0, 0, 0, 7, 0, 0, 0, 7, 0, 7, 7, 4,
      0, 0, 0, 0, 0, 0, 0, 7, 0, 0, 0, 7, 0, 7, 7, 5, 0, 0, 0, 7, 0, 7, 7, 5, 0, 7, 7, 5, 7, 5, 5, 4,
      0, 0, 0, 0, 0, 0, 0, 7, 0, 0, 0, 7, 0, 7, 7, 6, 0, 0, 0, 7, 0, 7, 7, 6, 0, 7, 7, 6, 7, 6, 6, 4,
      0, 0, 0, 7, 0, 7, 7, 6, 0, 7, 7, 6, 7, 6, 6, 5, 0, 7, 7, 6, 7, 6, 6, 5, 7, 6, 6, 5, 6, 5, 5, 4>>,
    <<0, 0, 0, 0, 0, 0, 0, 0, 0, 0, 0, 0, 0, 0, 0, 0, 0, 0, 0, 0, 0, 0, 0, 0, 0, 0, 0, 0, 0, 0, 0, 0,
      0, 0, 0, 0, 0, 0, 0, 0, 0, 0, 0, 0, 0, 0, 0, 0, 0, 0, 0, 0, 0, 0, 0, 0, 0, 0, 0, 0, 0, 0, 0, 5,
      0, 0, 0, 0, 0, 0, 0, 0, 0, 0, 0, 0, 0, 0, 0, 0, 0, 0, 0, 0, 0, 0, 0, 0, 0, 0, 0, 0, 0, 0, 0, 6,
      0, 0, 0, 0, 0, 0, 0, 0, 0, 0, 0, 0, 0, 0, 0, 6, 0, 0, 0, 0, 0, 0, 0, 6, 0, 0, 0, 6, 0, 6, 6, 5,
      0, 0, 0, 0, 0, 0, 0, 0, 0, 0, 0, 0, 0, 0, 0, 0, 0, 0, 0, 0, 0, 0, 0, 0, 0, 0, 0, 0, 0, 0, 0, 7,
      0, 0, 0, 0, 0, 0, 0, 0, 0, 0, 0, 0, 0, 0, 0, 7, 0, 0, 0, 0, 0, 0, 0, 7, 0, 0, 0, 7, 0, 7, 7, 5,
      0, 0, 0, 0, 0, 0, 0, 0, 0, 0, 0, 0, 0, 0, 0, 7, 0, 0, 0, 0, 0, 0, 0, 7, 0, 0, 0, 7, 0, 7, 7, 6,
      0, 0, 0, 0, 0, 0, 0, 7, 0, 0, 0, 7, 0, 7, 7, 6, 0, 0, 0, 7, 0, 7, 7, 6, 0, 7, 7, 6, 7, 6, 6, 5>>,
    <<0, 0, 0, 0, 0, 0, 0, 0, 0, 0, 0, 0, 0, 0, 0, 0, 0, 0, 0, 0, 0, 0, 0, 0, 0, 0, 0, 0, 0, 0, 0, 0,
      0, 0, 0, 0, 0, 0, 0, 0, 0, 0, 0, 0, 0, 0, 0, 0, 0, 0, 0, 0, 0, 0, 0, 0, 0, 0, 0, 0, 0, 0, 0, 0,
      0, 0, 0, 0, 0, 0, 0, 0, 0, 0, 0, 0, 0, 0, 0, 0, 0, 0, 0, 0, 0, 0, 0, 0, 0, 0, 0, 0, 0, 0, 0, 0,
      0, 0, 0, 0, 0, 0, 0, 0, 0, 0, 0, 0, 0, 0, 0, 0, 0, 0, 0, 0, 0, 0, 0, 0, 0, 0, 0, 0, 0, 0, 0, 6,
      0, 0, 0, 0, 0, 0, 0, 0, 0, 0, 0, 0, 0, 0, 0, 0, 0, 0, 0, 0, 0, 0, 0, 0, 0, 0, 0, 0, 0, 0, 0, 0,
      0, 0, 0, 0, 0, 0, 0, 0, 0, 0, 0, 0, 0, 0, 0, 0, 0, 0, 0, 0, 0, 0, 0, 0, 0, 0, 0, 0, 0, 0, 0, 7,
      0, 0, 0, 0, 0, 0, 0, 0, 0, 0, 0, 0, 0, 0, 0, 0, 0, 0, 0, 0, 0, 0, 0, 0, 0, 0, 0, 0, 0, 0, 0, 7,
      0, 0, 0, 0, 0, 0, 0, 0, 0, 0, 0, 0, 0, 0, 0, 7, 0, 0, 0, 0, 0, 0, 0, 7, 0, 0, 0, 7, 0, 7, 7, 6>>,
    <<0, 0, 0, 0, 0, 0, 0, 0, 0, 0, 0, 0, 0, 0, 0, 0, 0, 0, 0, 0, 0, 0, 0, 0, 0, 0, 0, 0, 0, 0, 0, 0,
      0, 0, 0, 0, 0, 0, 0, 0, 0, 0, 0, 0, 0, 0, 0, 0, 0, 0, 0, 0, 0, 0, 0, 0, 0, 0, 0, 0, 0, 0, 0, 0,
      0, 0, 0, 0, 0, 0, 0, 0, 0, 0, 0, 0, 0, 0, 0, 0, 0, 0, 0, 0, 0, 0, 0, 0, 0, 0, 0, 0, 0, 0, 0, 0,
      0, 0, 0, 0, 0, 0, 0, 0, 0, 0, 0, 0, 0, 0, 0, 0, 0, 0, 0, 0, 0, 0, 0, 0, 0, 0, 0, 0, 0, 0, 0, 0,
      0, 0, 0, 0, 0, 0, 0, 0, 0, 0, 0, 0, 0, 0, 0, 0, 0, 0, 0, 0, 0, 0, 0, 0, 0, 0, 0, 0, 0, 0, 0, 0,
      0, 0, 0, 0, 0, 0, 0, 0, 0, 0, 0, 0, 0, 0, 0, 0, 0, 0, 0, 0, 0, 0, 0, 0, 0, 0, 0, 0, 0, 0, 0, 0,
      0, 0, 0, 0, 0, 0, 0, 0, 0, 0, 0, 0, 0, 0, 0, 0, 0, 0, 0, 0, 0, 0, 0, 0, 0, 0, 0, 0, 0, 0, 0, 0,
      0, 0, 0, 0, 0, 0, 0, 0, 0, 0, 0, 0, 0, 0, 0, 0, 0, 0, 0, 0, 0, 0, 0, 0, 0, 0, 0, 0, 0, 0, 0, 7>>>>

\* nthSet(v, n): the position of the n-th (0-based) set bit of v, by the
\* two tables.  All arithmetic is uint8.
nthSet(v, n) ==
  LET p1 == (pop8tab[v[4] + 1] + pop8tab[v[3] + 1] + pop8tab[v[2] + 1]
               + pop8tab[v[1] + 1]) % 256
      c1 == p1 <= n
      v1 == IF c1 THEN WordShr(v, 4) ELSE v
      s1 == IF c1 THEN 32 ELSE 0
      n1 == IF c1 THEN n - p1 ELSE n
      p2 == (pop8tab[v1[2] + 1] + pop8tab[v1[1] + 1]) % 256
      c2 == p2 <= n1
      v2 == IF c2 THEN WordShr(v1, 2) ELSE v1
      s2 == IF c2 THEN s1 + 16 ELSE s1
      n2 == IF c2 THEN n1 - p2 ELSE n1
      p3 == pop8tab[v2[1] + 1]
      c3 == p3 <= n2
      v3 == IF c3 THEN WordShr(v2, 1) ELSE v2
      s3 == IF c3 THEN s2 + 8 ELSE s2
      n3 == IF c3 THEN n2 - p3 ELSE n2
  IN  IF n3 >= 8 THEN Abort  \* precomp[n]: index out of range
      ELSE (precomp[n3 + 1][v3[1] + 1] + s3) % 256

\* ------------------------------------------------------------- bitset
\* type bitset struct { bits []uint64; ranks []int32; sl []int32 }
EmptyBitset == [bits |-> <<>>, ranks |-> <<>>, sl |-> <<>>]

Zeros(n) == [j \in 1..n |-> 0]

setBit(b, pos, value) ==
  LET w == pos \div 64
      grown == IF w >= Len(b.bits)
               THEN b.bits \o [j \in 1..(w + 1 - Len(b.bits)) |-> ZeroWord]
               ELSE b.bits
  IN  [b EXCEPT !.bits = [grown EXCEPT ![w + 1] =
                            IF value THEN WordOr(@, pos % 64)
                            ELSE WordAndNot(@, pos % 64)],
                !.ranks = <<>>]

\* getBit reading the bit after pos
getBitNext(b, pos) ==
  IF (pos + 1) \div 64 >= Len(b.bits) THEN FALSE
  ELSE WordBit(b.bits[((pos + 1) \div 64) + 1], (pos + 1) % 64)

getBit(b, pos) ==
  IF pos \div 64 >= Len(b.bits) THEN FALSE
  ELSE WordBit(b.bits[(pos \div 64) + 1], pos % 64)

\* the first loop of init: drop the trailing all-zero words
RECURSIVE trimZeroWords(_)
trimZeroWords(bits) ==
  IF Len(bits) > 0 /\ OnesCount64(bits[Len(bits)]) = 0
  THEN trimZeroWords(SubSeq(bits, 1, Len(bits) - 1))
  ELSE bits

\* the length init allocates for the select hints
slLen(n) == (n \div 2) + 1 + (n % 2)

\* the second loop of init from word i on, and the statement after it;
\* panic tells that an sl[t] was out of range
RECURSIVE initLoop(_, _, _, _, _)
initLoop(bits, i, t, ranks, sl) ==
  IF i >= Len(bits)
  THEN IF t >= Len(sl)
       THEN [bits |-> bits, ranks |-> ranks, sl |-> sl, panic |-> TRUE]
       ELSE [bits |-> bits, ranks |-> ranks,
             sl |-> [sl EXCEPT ![t + 1] = Len(bits) - 1], panic |-> FALSE]
  ELSE LET r == ranks[i + 1] + OnesCount64(bits[i + 1])
           ranks1 == [ranks EXCEPT ![i + 2] = r]
       IN  IF r \div 64 >= t
           THEN IF t >= Len(sl)
                THEN [bits |-> bits, ranks |-> ranks1, sl |-> sl, panic |-> TRUE]
                ELSE initLoop(bits, i + 1, t + 1, ranks1, [sl EXCEPT ![t + 1] = i])
           ELSE initLoop(bits, i + 1, t, ranks1, sl)

\* bitset.init: the bitset it leaves, and whether it panicked
init(b) ==
  LET bits == trimZeroWords(b.bits)
  IN  initLoop(bits, 0, 1, Zeros(Len(bits) + 1), Zeros(slLen(Len(bits))))

\* selects without its scan: the hinted word is taken as it is
selectScanNone(ranks, l, r, nth) == l

\* the scan of selects: the first word l < r with ranks[l+1] >= nth, or r
RECURSIVE selectScan(_, _, _, _)
selectScan(ranks, l, r, nth) ==
  IF l < r
  THEN IF l + 1 < 0 \/ l + 1 >= Len(ranks) THEN Abort
       ELSE IF ranks[l + 2] < nth THEN selectScan(ranks, l + 1, r, nth)
       ELSE l
  ELSE l

selects(b, nth) ==
  IF Len(b.ranks) = 0 THEN Abort
  ELSE IF b.ranks[Len(b.ranks)] < nth THEN -1
  ELSE LET q == nth \div 64 IN
       IF q < 0 \/ q + 1 >= Len(b.sl) THEN Abort
       ELSE LET l == selectScan(b.ranks, b.sl[q + 1], b.sl[q + 2], nth) IN
            IF l < 0 \/ l >= Len(b.bits) \/ l >= Len(b.ranks) THEN Abort
            ELSE LET k == nthSet(b.bits[l + 1], (nth - b.ranks[l + 1] - 1) % 256) IN
                 IF k = Abort THEN Abort ELSE l * 64 + k

\* ------------------------------------------------------------- queue
\* type queue[T] struct { data []T; l, sz uint32 }
bfsNode(l, r, depth) == [l |-> l, r |-> r, depth |-> depth]

newQueue(size) ==
  [data |-> [j \in 1..size |-> bfsNode(0, 0, 0)], l |-> 0, sz |-> 0]

push(q, elm) ==
  [q EXCEPT !.data[((q.l + q.sz) % Len(q.data)) + 1] = elm, !.sz = @ + 1]

queueSize(q) == q.sz

\* pop: the element returned and the queue left (sz = 0 panics: the caller
\* tests queueSize first)
popElm(q) == q.data[q.l + 1]

pop(q) == [q EXCEPT !.l = (q.l + 1) % Len(q.data), !.sz = @ - 1]

\* ------------------------------------------------------------- sort.Strings
\* a < b as Go compares strings: by the first byte that differs, a proper
\* prefix first
StrLess(a, b) ==
  LET m == IF Len(a) <= Len(b) THEN Len(a) ELSE Len(b)
      d == {j \in 1..m : a[j] # b[j]}
  IN  IF d = {} THEN Len(a) < Len(b)
      ELSE LET j == CHOOSE x \in d : \A y \in d : x <= y IN a[j] < b[j]

\* sort.Strings(d): the entries in ascending order.  Entry j goes to the
\* place after the entries that are less, and the equal ones before it.
SortStrings(d) ==
  LET place == [j \in 1..Len(d) |->
                  1 + Cardinality({k \in 1..Len(d) :
                                      \/ StrLess(d[k], d[j])
                                      \/ d[k] = d[j] /\ k < j})]
  IN  [p \in 1..Len(d) |-> d[CHOOSE j \in 1..Len(d) : place[j] = p]]

\* ------------------------------------------------------------- store
\* type SuccinctTrie struct { bitmap, leaves bitset; nodes string; size int }
ZeroTrie ==
  [bitmap |-> EmptyBitset, leaves |-> EmptyBitset, nodes |-> <<>>, size |-> 0]

\* max giving its first argument: the queue gets room for one frame
MaxFirst(a, b) == a

Max(a, b) == IF a >= b THEN a ELSE b

\* BuildSuccinctTrie, lines 47-51: skip the entries that end at this depth
RECURSIVE skipEnded(_, _, _, _)
skipEnded(d, next, r, depth) ==
  IF next < r /\ Len(d[next + 1]) <= depth
  THEN skipEnded(d, next + 1, r, depth)
  ELSE next

\* lines 56-58: the inner loop for one stride b
RECURSIVE groupStride(_, _, _, _, _, _)
groupStride(d, i, r, b, curR, depth) ==
  IF r + b < curR /\ d[i + 1][depth + 1] = d[r + b + 1][depth + 1]
  THEN groupStride(d, i, r + b, b, curR, depth)
  ELSE r

\* groupLast with the first stride alone, never halved
groupLastOnce(d, i, r, b, curR, depth) ==
  IF b >= 1 THEN groupStride(d, i, r, b, curR, depth) ELSE r

\* lines 54-60: the end of the group of entries that share dict[i][depth]
RECURSIVE groupLast(_, _, _, _, _, _)
groupLast(d, i, r, b, curR, depth) ==
  IF b >= 1
  THEN groupLast(d, i, groupStride(d, i, r, b, curR, depth), b \div 2, curR, depth)
  ELSE r

\* groupEnd taking all the entries left for one group
groupEndAll(d, i, curR, depth) == curR

\* groupEnd taking every entry for a group of its own
groupEndOne(d, i, curR, depth) == i + 1

groupEnd(d, i, curR, depth) ==
  groupLast(d, i, i, (curR - i) \div 2, curR, depth) + 1

\* touchBottom with >= for ==: every child is marked
touchBottomAny(d, i, depth) == Len(d[i + 1]) >= depth + 1

\* touchBottom comparing with the depth of the parent: no child is marked
touchBottomNever(d, i, depth) == Len(d[i + 1]) = depth

\* line 65: the first entry of the group ends at this child
touchBottom(d, i, depth) == Len(d[i + 1]) = depth + 1

\* ------------------------------------------------------------- cursor
\* type Node struct { trie *SuccinctTrie; firstChild, afterLastChild int32;
\* leaf bool }.  trie is TRUE for a non-nil pointer; the operators take the
\* store t it points to.
Node(trie, firstChild, afterLastChild, leaf) ==
  [trie |-> trie, firstChild |-> firstChild,
   afterLastChild |-> afterLastChild, leaf |-> leaf]

ZeroNode == Node(FALSE, 0, 0, FALSE)

\* what a call that panicked leaves in place of its Node
AbortNode == Node(FALSE, Abort, Abort, FALSE)

\* Root with its range begun one label early, at the reserved byte
RootFromZero(t) ==
  LET firstChild == selects(t.bitmap, 1) IN
  IF firstChild = Abort THEN AbortNode
  ELSE IF firstChild < 0 THEN Node(TRUE, 0, 0, FALSE)
  ELSE LET s2 == selects(t.bitmap, 2) IN
       IF s2 = Abort THEN AbortNode
       ELSE Node(TRUE, firstChild - 1, s2 - 1, FALSE)

Root(t) ==
  LET firstChild == selects(t.bitmap, 1) IN
  IF firstChild = Abort THEN AbortNode
  ELSE IF firstChild < 0 THEN Node(TRUE, 0, 0, FALSE)
  ELSE LET s2 == selects(t.bitmap, 2) IN
       IF s2 = Abort THEN AbortNode
       ELSE Node(TRUE, firstChild, s2 - 1, FALSE)

Exists(n) == n.trie

NodeSize(n) == n.afterLastChild - n.firstChild

Leaf(n) == n.leaf

\* n.trie.nodes[n.firstChild:n.afterLastChild]; <<Abort>> when it panics
Children(t, n) ==
  IF ~n.trie THEN <<Abort>>
  ELSE IF n.firstChild < 0 \/ n.firstChild > n.afterLastChild
          \/ n.afterLastChild > Len(t.nodes) THEN <<Abort>>
  ELSE SubSeq(t.nodes, n.firstChild + 1, n.afterLastChild)

\* next without its test for node < 0
nextNoNeg(t, n, node) ==
  IF node >= n.afterLastChild THEN ZeroNode
  ELSE IF ~n.trie THEN AbortNode
  ELSE LET s1 == selects(t.bitmap, node + 1) IN
       IF s1 = Abort THEN AbortNode
       ELSE IF s1 - node < 0 THEN Node(TRUE, 0, 0, TRUE)
       ELSE LET s2 == selects(t.bitmap, node + 2) IN
            IF s2 = Abort THEN AbortNode
            ELSE Node(TRUE, s1 - node, s2 - node - 1, getBit(t.leaves, node))

\* next taking a node for a leaf when it has no children, and only then
nextLeafBare(t, n, node) ==
  IF node >= n.afterLastChild \/ node < 0 THEN ZeroNode
  ELSE IF ~n.trie THEN AbortNode
  ELSE LET s1 == selects(t.bitmap, node + 1) IN
       IF s1 = Abort THEN AbortNode
       ELSE IF s1 - node < 0 THEN Node(TRUE, 0, 0, TRUE)
       ELSE LET s2 == selects(t.bitmap, node + 2) IN
            IF s2 = Abort THEN AbortNode
            ELSE Node(TRUE, s1 - node, s2 - node - 1, s1 - node = s2 - node - 1)

next(t, n, node) ==
  IF node >= n.afterLastChild \/ node < 0 THEN ZeroNode
  ELSE IF ~n.trie THEN AbortNode
  ELSE LET s1 == selects(t.bitmap, node + 1) IN
       IF s1 = Abort THEN AbortNode
       ELSE IF s1 - node < 0 THEN Node(TRUE, 0, 0, TRUE)
       ELSE LET s2 == selects(t.bitmap, node + 2) IN
            IF s2 = Abort THEN AbortNode
            ELSE Node(TRUE, s1 - node, s2 - node - 1, getBit(t.leaves, node))

\* the linear scan of indexByte over the closed range [l, r]: the first half
\* of the range is scanned before the second
RECURSIVE indexScan(_, _, _, _, _)
indexScan(t, nonNil, l, r, b) ==
  IF l > r THEN -1
  ELSE IF l = r
  THEN IF ~nonNil \/ l < 0 \/ l >= Len(t.nodes) THEN Abort
       ELSE IF t.nodes[l + 1] = b THEN l
       ELSE -1
  ELSE LET first == indexScan(t, nonNil, l, (l + r) \div 2, b) IN
       IF first # -1 THEN first
       ELSE indexScan(t, nonNil, ((l + r) \div 2) + 1, r, b)

\* the binary search of indexByte, on the closed range [l, r]
RECURSIVE indexBinary(_, _, _, _, _)
indexBinary(t, nonNil, l, r, b) ==
  IF r - l >= 15
  THEN LET k == (l + r) \div 2 IN
       IF ~nonNil \/ k < 0 \/ k >= Len(t.nodes) THEN Abort
       ELSE IF t.nodes[k + 1] = b THEN k
       ELSE IF t.nodes[k + 1] > b THEN indexBinary(t, nonNil, l, k - 1, b)
       ELSE indexBinary(t, nonNil, k + 1, r, b)
  ELSE indexScan(t, nonNil, l, r, b)

\* indexByte without its r--
indexByteNoDec(t, nonNil, l, r, b) == indexBinary(t, nonNil, l, r, b)

\* t.indexByte(l, r, b); nonNil is whether the receiver t is a non-nil pointer
indexByte(t, nonNil, l, r, b) == indexBinary(t, nonNil, l, r - 1, b)

Next(t, n, b) ==
  LET k == indexByte(t, n.trie, n.firstChild, n.afterLastChild, b) IN
  IF k = Abort THEN AbortNode ELSE next(t, n, k)

\* the passes i = lo .. hi - 1 of the loop of Search, in order; a pass is not
\* made once the cursor does not exist
RECURSIVE searchLoop(_, _, _, _, _)
searchLoop(t, nd, s, lo, hi) ==
  IF hi <= lo \/ ~Exists(nd) THEN nd
  ELSE IF hi = lo + 1 THEN Next(t, nd, s[lo + 1])
  ELSE LET mid == (lo + hi) \div 2
           m == searchLoop(t, nd, s, lo, mid)
       IN  searchLoop(t, m, s, mid, hi)

Search(t, nd, s) == searchLoop(t, nd, s, 0, Len(s))

\* the variables of SearchPrefix between two passes of its loop; stop tells
\* that the loop has ended early, by break or by a panic
prefixState(stop, cur, lastUnmatch) ==
  [stop |-> stop, cur |-> cur, lastUnmatch |-> lastUnmatch]

\* the pass i of the loop of SearchPrefix, lines 188-195; a panic leaves
\* Abort for the value returned
prefixStep(t, st, key, i) ==
  LET k == indexByte(t, st.cur.trie, st.cur.firstChild, st.cur.afterLastChild,
                     key[i + 1])
  IN  IF k = Abort THEN prefixState(TRUE, AbortNode, Abort)
      ELSE IF k # -1
      THEN LET c == next(t, st.cur, k) IN
           IF c = AbortNode THEN prefixState(TRUE, AbortNode, Abort)
           ELSE prefixState(FALSE, c, IF c.leaf THEN i + 1 ELSE st.lastUnmatch)
      ELSE prefixState(TRUE, st.cur, st.lastUnmatch)

\* the passes i = lo .. hi - 1 of the loop of SearchPrefix, in order
RECURSIVE searchPrefixLoop(_, _, _, _, _)
searchPrefixLoop(t, st, key, lo, hi) ==
  IF hi <= lo \/ st.stop THEN st
  ELSE IF hi = lo + 1 THEN prefixStep(t, st, key, lo)
  ELSE LET mid == (lo + hi) \div 2
           m == searchPrefixLoop(t, st, key, lo, mid)
       IN  searchPrefixLoop(t, m, key, mid, hi)

\* a pass of SearchPrefix recording every node it passes, leaf or not
prefixStepAll(t, st, key, i) ==
  LET k == indexByte(t, st.cur.trie, st.cur.firstChild, st.cur.afterLastChild,
                     key[i + 1])
  IN  IF k = Abort THEN prefixState(TRUE, AbortNode, Abort)
      ELSE IF k # -1
      THEN LET c == next(t, st.cur, k) IN
           IF c = AbortNode THEN prefixState(TRUE, AbortNode, Abort)
           ELSE prefixState(FALSE, c, i + 1)
      ELSE prefixState(TRUE, st.cur, st.lastUnmatch)

RECURSIVE searchPrefixLoopAll(_, _, _, _, _)
searchPrefixLoopAll(t, st, key, lo, hi) ==
  IF hi <= lo \/ st.stop THEN st
  ELSE IF hi = lo + 1 THEN prefixStepAll(t, st, key, lo)
  ELSE LET mid == (lo + hi) \div 2
           m == searchPrefixLoopAll(t, st, key, lo, mid)
       IN  searchPrefixLoopAll(t, m, key, mid, hi)

SearchPrefixAll(t, cur, key) ==
  searchPrefixLoopAll(t, prefixState(FALSE, cur, 0), key, 0, Len(key)).lastUnmatch

SearchPrefix(t, cur, key) ==
  searchPrefixLoop(t, prefixState(FALSE, cur, 0), key, 0, Len(key)).lastUnmatch

TrieSize(t) == t.size

\* ------------------------------------------------------------- codec
\* type wrapSuccinctTrie struct { BitmapBits, LeavesBits []uint64;
\* Nodes string; Size int }
wrapSuccinctTrie(v) ==
  [BitmapBits |-> v.bitmap.bits, LeavesBits |-> v.leaves.bits,
   Nodes |-> v.nodes, Size |-> v.size]

ZeroWrap == [BitmapBits |-> <<>>, LeavesBits |-> <<>>, Nodes |-> <<>>, Size |-> 0]

\* encoding/gob, as far as this record uses it.  A message is its length
\* and then the fields in order: a field is its number's distance from the
\* field sent before it and its value, a field holding its zero value is
\* not sent, and a 0 ends the record.  A []uint64 is its count and its
\* words, a string its length and its bytes, an int is sent zig-zag.
RECURSIVE gobWords(_)
gobWords(ws) == IF Len(ws) = 0 THEN <<>> ELSE ws[1] \o gobWords(Tail(ws))

gobInt(x) == IF x < 0 THEN 2 * (-x - 1) + 1 ELSE 2 * x

gobUnInt(u) == IF u % 2 = 1 THEN -((u - 1) \div 2) - 1 ELSE u \div 2

gobEncode(w) ==
  LET f1 == IF Len(w.BitmapBits) = 0 THEN <<>>
            ELSE <<1, Len(w.BitmapBits)>> \o gobWords(w.BitmapBits)
      a1 == IF Len(w.BitmapBits) = 0 THEN 0 ELSE 1
      f2 == IF Len(w.LeavesBits) = 0 THEN <<>>
            ELSE <<2 - a1, Len(w.LeavesBits)>> \o gobWords(w.LeavesBits)
      a2 == IF Len(w.LeavesBits) = 0 THEN a1 ELSE 2
      f3 == IF Len(w.Nodes) = 0 THEN <<>>
            ELSE <<3 - a2, Len(w.Nodes)>> \o w.Nodes
      a3 == IF Len(w.Nodes) = 0 THEN a2 ELSE 3
      f4 == IF w.Size = 0 THEN <<>> ELSE <<4 - a3, gobInt(w.Size)>>
      body == f1 \o f2 \o f3 \o f4 \o <<0>>
  IN  <<Len(body)>> \o body

gobReadWords(body, pos, count) ==
  [j \in 1..count |-> SubSeq(body, pos + 8 * (j - 1), pos + 8 * j - 1)]

\* the fields of a record from body[pos] on; field is the last field read
RECURSIVE gobFields(_, _, _, _)
gobFields(body, pos, field, w) ==
  IF pos > Len(body) THEN [err |-> TRUE, w |-> w]
  ELSE IF body[pos] = 0
  THEN [err |-> pos # Len(body), w |-> w]
  ELSE LET f == field + body[pos] IN
       IF f > 4 \/ pos + 1 > Len(body) THEN [err |-> TRUE, w |-> w]
       ELSE LET c == body[pos + 1] IN
            CASE f = 1 ->
                   IF pos + 1 + 8 * c > Len(body) THEN [err |-> TRUE, w |-> w]
                   ELSE gobFields(body, pos + 2 + 8 * c, f,
                          [w EXCEPT !.BitmapBits = gobReadWords(body, pos + 2, c)])
              [] f = 2 ->
                   IF pos + 1 + 8 * c > Len(body) THEN [err |-> TRUE, w |-> w]
                   ELSE gobFields(body, pos + 2 + 8 * c, f,
                          [w EXCEPT !.LeavesBits = gobReadWords(body, pos + 2, c)])
              [] f = 3 ->
                   IF pos + 1 + c > Len(body) THEN [err |-> TRUE, w |-> w]
                   ELSE gobFields(body, pos + 2 + c, f,
                          [w EXCEPT !.Nodes = SubSeq(body, pos + 2, pos + 1 + c)])
              [] OTHER ->
                   gobFields(body, pos + 2, f, [w EXCEPT !.Size = gobUnInt(c)])

\* Decoder.Decode(&w) with w the zero record: the error and the record read
gobDecode(stream) ==
  IF Len(stream) = 0 THEN [err |-> TRUE, w |-> ZeroWrap]
  ELSE IF Len(stream) - 1 < stream[1] THEN [err |-> TRUE, w |-> ZeroWrap]
  ELSE gobFields(SubSeq(stream, 2, stream[1] + 1), 1, 0, ZeroWrap)

\* SuccinctTrie.Marshal: what it writes
Marshal(v) == gobEncode(wrapSuccinctTrie(v))

\* Unmarshal without its call of init
UnmarshalNoInit(v, stream) ==
  LET d == gobDecode(stream) IN
  IF d.err THEN [v |-> v, err |-> TRUE, panic |-> FALSE]
  ELSE [v |-> [bitmap |-> [bits |-> d.w.BitmapBits, ranks |-> <<>>, sl |-> <<>>],
               leaves |-> [bits |-> d.w.LeavesBits, ranks |-> <<>>, sl |-> <<>>],
               nodes |-> d.w.Nodes, size |-> d.w.Size],
        err |-> FALSE, panic |-> FALSE]

\* SuccinctTrie.Unmarshal into the store v: the store left, the error
\* returned, and whether init panicked
Unmarshal(v, stream) ==
  LET d == gobDecode(stream) IN
  IF d.err THEN [v |-> v, err |-> TRUE, panic |-> FALSE]
  ELSE LET b == init([bits |-> d.w.BitmapBits, ranks |-> <<>>, sl |-> <<>>]) IN
       [v |-> [bitmap |-> [bits |-> b.bits, ranks |-> b.ranks, sl |-> b.sl],
               leaves |-> [bits |-> d.w.LeavesBits, ranks |-> <<>>, sl |-> <<>>],
               nodes |-> d.w.Nodes, size |-> d.w.Size],
        err |-> FALSE, panic |-> b.panic]

\* ------------------------------------------------------------- inputs
\* the bytes of the small dictionaries: 'a', 'b'
Alphabet == {97, 98}

KeysUpTo(len) == UNION {[1..k -> Alphabet] : k \in 0..len}

SmallDicts == UNION {[1..k -> KeysUpTo(MaxLen)] : k \in 0..MaxKeys}

\* "hat", "is", "it", "a", "abc", "ab", and the six bytes of two CJK runes
Hat == <<104, 97, 116>>
Is == <<105, 115>>
It == <<105, 116>>
A == <<97>>
Abc == <<97, 98, 99>>
Ab == <<97, 98>>
Cjk == <<228, 184, 173, 230, 150, 135>>

\* the dictionaries of the tests, two whose entries are prefixes of one
\* another, and one out of order with a repeated key and an empty string
TestDicts ==
  {<<Hat, Is, It, A>>, <<Hat, Is, It, A, Cjk>>, <<<<>>, <<>>, Abc>>,
   <<Ab, Abc>>, <<A, Ab, Abc>>, <<Ab, <<>>, A, Ab>>}

\* w keys that share the prefix p and differ in their last byte ('d', 'f',
\* 'h', ...), given in descending order: one node with w children
WideDict(p, w) == [j \in 1..w |-> Append(p, 100 + 2 * (w - j))]

\* one key of len bytes: a path of len nodes
DeepDict(len) == <<[j \in 1..len |-> 97]>>

DeepLens == {l \in (MaxWide - 3)..MaxWide : l >= 0}

\* the widths tried: few children, the widths about indexByte's threshold,
\* and the widest
WideSizes == {w \in 0..MaxWide : w <= 2 \/ w \in 14..17 \/ w >= MaxWide - 3}

LargeDicts ==
  {WideDict(<<>>, w) : w \in WideSizes}
    \cup {WideDict(A, w) : w \in WideSizes}
    \cup {DeepDict(l) : l \in DeepLens}

Dicts == SmallDicts \cup TestDicts \cup LargeDicts

Range(s) == {s[j] : j \in 1..Len(s)}

\* the keys of the tests
TestKeys ==
  {Hat, Append(Hat, 116), <<104, 97>>, Append(Is, 115), <<116, 105>>,
   Abc, Ab, Append(Abc, 100), <<>>}

\* the keys the searches are called with on the dictionary d: its entries,
\* each shortened by a byte and extended by 'a' and by 'c', and the short
\* keys for a small dictionary, the keys of the tests for another
SearchKeys(d) ==
  UNION {{k, Append(k, 97), Append(k, 99), SubSeq(k, 1, Len(k) - 1)} : k \in Range(d)}
    \cup (IF Range(d) \subseteq KeysUpTo(MaxLen) THEN KeysUpTo(MaxLen) ELSE TestKeys)

\* the keys the searches are called with on a cursor that does not exist
LostKeys == {<<>>, A}

\* the bytes Next is called with at a cursor: the cursor's children and 'c'
NextBytes(t, nd) ==
  IF nd.trie THEN {99} \cup Range(Children(t, nd)) ELSE {97}

\* ------------------------------------------------------------- state
VARIABLES
  pc,       \* "start", "loop", "inner" (BuildSuccinctTrie), "built", "panic"
  fault,    \* the call that panicked
  dict,     \* the dictionary slice
  ret,      \* the store BuildSuccinctTrie builds
  nodes,    \* BuildSuccinctTrie's local nodes []byte
  zeroIdx,  \* its local zeroIdx
  queue,    \* its queue
  cur,      \* its cur
  i,        \* its i
  n,        \* the caller's cursor into ret
  path,     \* the bytes that led from Root() to n, while n exists
  call,     \* the last call: op, the cursor it was called on, the argument
  out,      \* what the last SearchPrefix returned
  buf,      \* what Marshal wrote
  dec,      \* the store Unmarshal is called on
  old,      \* that store before the last Unmarshal
  err,      \* whether the last Unmarshal returned an error
  bs,       \* a bitset used on its own, as TestBitset does
  bsPc,     \* "open" (setBit may be called), "inited", "panic"
  ones,     \* the positions the setBit calls made so far have left set
  got       \* the last selects call on bs: its argument and its result

vars == <<pc, fault, dict, ret, nodes, zeroIdx, queue, cur, i, n, path, call,
          out, buf, dec, old, err, bs, bsPc, ones, got>>

build == <<dict, ret, nodes, zeroIdx, queue, cur, i>>
codec == <<buf, dec, old, err>>
unit == <<bs, bsPc, ones, got>>

Call(op, from, fromPath, arg) ==
  [op |-> op, from |-> from, fromPath |-> fromPath, arg |-> arg]

Init ==
  /\ pc = "start"
  /\ fault = "none"
  /\ dict \in Dicts
  /\ ret = ZeroTrie
  /\ nodes = <<>>
  /\ zeroIdx = 0
  /\ queue = newQueue(0)
  /\ cur = bfsNode(0, 0, 0)
  /\ i = 0
  /\ n = ZeroNode
  /\ path = <<>>
  /\ call = Call("none", ZeroNode, <<>>, <<>>)
  /\ out = 0
  /\ buf = <<>>
  /\ dec = ZeroTrie
  /\ old = ZeroTrie
  /\ err = FALSE
  /\ bs = EmptyBitset
  /\ bsPc = "open"
  /\ ones = {}
  /\ got = [nth |-> 0, pos |-> 0]

\* ------------------------------------------------------------- build
\* BuildSuccinctTrie, lines 27-39
BuildStart ==
  /\ pc = "start"
  /\ dict' = SortStrings(dict)
  /\ ret' = ZeroTrie
  /\ zeroIdx' = 1
  /\ queue' = push(newQueue(Max(1, Len(dict))), bfsNode(0, Len(dict), 0))
  /\ nodes' = <<0>>
  /\ pc' = "loop"
  /\ UNCHANGED <<fault, cur, i, n, path, call, out, codec, unit>>

\* lines 41-51: one frame is taken from the queue
BuildPop ==
  /\ pc = "loop"
  /\ queueSize(queue) > 0
  /\ cur' = popElm(queue)
  /\ queue' = pop(queue)
  /\ ret' = [ret EXCEPT !.bitmap = setBit(@, zeroIdx, TRUE)]
  /\ zeroIdx' = zeroIdx + 1
  /\ i' = skipEnded(dict, cur'.l, cur'.r, cur'.depth)
  /\ pc' = IF i' < cur'.r THEN "inner" ELSE "loop"
  /\ UNCHANGED <<fault, dict, nodes, n, path, call, out, codec, unit>>

\* lines 53-73: one group of entries becomes one child
BuildGroup ==
  /\ pc = "inner"
  /\ i < cur.r
  /\ LET r == groupEnd(dict, i, cur.r, cur.depth)
         grown == Append(nodes, dict[i + 1][cur.depth + 1])
     IN  /\ nodes' = grown
         /\ ret' = IF touchBottom(dict, i, cur.depth)
                   THEN [ret EXCEPT !.leaves = setBit(@, Len(grown) - 1, TRUE),
                                    !.size = @ + 1]
                   ELSE ret
         /\ queue' = push(queue, bfsNode(i, r, cur.depth + 1))
         /\ i' = r
         /\ zeroIdx' = zeroIdx + 1
         /\ pc' = IF r < cur.r THEN "inner" ELSE "loop"
  /\ UNCHANGED <<fault, dict, cur, n, path, call, out, codec, unit>>

\* lines 76-80: the end sentinel and bitmap.init
BuildFinish ==
  /\ pc = "loop"
  /\ queueSize(queue) = 0
  /\ LET b == init(setBit(ret.bitmap, zeroIdx, TRUE))
     IN  /\ ret' = [ret EXCEPT !.nodes = nodes,
                               !.bitmap = [bits |-> b.bits, ranks |-> b.ranks,
                                           sl |-> b.sl]]
         /\ pc' = IF b.panic THEN "panic" ELSE "built"
         /\ fault' = IF b.panic THEN "BuildSuccinctTrie" ELSE fault
  /\ UNCHANGED <<dict, nodes, zeroIdx, queue, cur, i, n, path, call, out, codec, unit>>

\* ------------------------------------------------------------- queries
Landed(nd) == IF nd = AbortNode THEN "panic" ELSE "built"

\* The caller takes the root cursor once and walks from it with Next or
\* searches from it; when a Next fails, or before it took the root, it
\* calls on the cursor that does not exist.
Lost == ~n.trie /\ call.op \in {"none", "Next"}

DoRoot ==
  /\ pc = "built"
  /\ buf = <<>>
  /\ call.op = "none"
  /\ n' = Root(ret)
  /\ path' = <<>>
  /\ call' = Call("Root", ZeroNode, <<>>, <<>>)
  /\ pc' = Landed(n')
  /\ fault' = IF n' = AbortNode THEN "Root" ELSE fault
  /\ UNCHANGED <<build, out, codec, unit>>

DoNext ==
  /\ pc = "built"
  /\ buf = <<>>
  /\ (n.trie /\ call.op \in {"Root", "Next"}) \/ Lost
  /\ \E b \in NextBytes(ret, n) :
       /\ n' = Next(ret, n, b)
       /\ path' = IF n'.trie THEN Append(path, b) ELSE <<>>
       /\ call' = Call("Next", n, path, <<b>>)
       /\ pc' = Landed(n')
       /\ fault' = IF n' = AbortNode THEN "Next" ELSE fault
  /\ UNCHANGED <<build, out, codec, unit>>

\* Search and SearchPrefix are called on the root cursor with the keys of
\* SearchKeys, and on a cursor that does not exist with those of LostKeys
CallKeys == IF call.op = "Root" THEN SearchKeys(dict) ELSE LostKeys

DoSearch ==
  /\ pc = "built"
  /\ buf = <<>>
  /\ call.op = "Root" \/ Lost
  /\ \E s \in CallKeys :
       /\ n' = Search(ret, n, s)
       /\ path' = IF n'.trie THEN path \o s ELSE <<>>
       /\ call' = Call("Search", n, path, s)
       /\ pc' = Landed(n')
       /\ fault' = IF n' = AbortNode THEN "Search" ELSE fault
  /\ UNCHANGED <<build, out, codec, unit>>

DoSearchPrefix ==
  /\ pc = "built"
  /\ buf = <<>>
  /\ call.op = "Root" \/ Lost
  /\ \E key \in CallKeys :
       /\ out' = SearchPrefix(ret, n, key)
       /\ call' = Call("SearchPrefix", n, path, key)
       /\ pc' = IF out' = Abort THEN "panic" ELSE "built"
       /\ fault' = IF out' = Abort THEN "SearchPrefix" ELSE fault
  /\ UNCHANGED <<build, n, path, codec, unit>>

\* ------------------------------------------------------------- codec
\* The caller marshals the store it built, and then unmarshals into the
\* store dec; after a round trip it unmarshals into dec once more.
DoMarshal ==
  /\ pc = "built"
  /\ call.op = "none"
  /\ buf' = Marshal(ret)
  /\ call' = Call("Marshal", ZeroNode, <<>>, <<>>)
  /\ UNCHANGED <<pc, fault, build, n, path, out, dec, old, err, unit>>

\* the streams Unmarshal is given: what Marshal wrote, that stream cut
\* short, and well-formed streams of records no store marshals to
Streams ==
  {buf, SubSeq(buf, 1, Len(buf) - 1), SubSeq(buf, 1, Len(buf) \div 2), <<>>,
   gobEncode([wrapSuccinctTrie(ret) EXCEPT !.BitmapBits = <<>>]),
   gobEncode([wrapSuccinctTrie(ret) EXCEPT !.Size = @ + 1])}

DoUnmarshal ==
  /\ pc = "built"
  /\ call.op = "Marshal" \/ (call.op = "Unmarshal" /\ call.arg = buf /\ old = ZeroTrie)
  /\ \E s \in Streams :
       LET u == Unmarshal(dec, s) IN
       /\ dec' = u.v
       /\ old' = dec
       /\ err' = u.err
       /\ call' = Call("Unmarshal", ZeroNode, <<>>, s)
       /\ pc' = IF u.panic THEN "panic" ELSE "built"
       /\ fault' = IF u.panic THEN "Unmarshal" ELSE fault
  /\ UNCHANGED <<build, n, path, out, buf, unit>>

NextState ==
  \/ BuildStart
  \/ BuildPop
  \/ BuildGroup
  \/ BuildFinish
  \/ DoRoot
  \/ DoNext
  \/ DoSearch
  \/ DoSearchPrefix
  \/ DoMarshal
  \/ DoUnmarshal

Spec == Init /\ [][NextState]_vars

\* ------------------------------------------------------------- bitset alone
\* A bitset used as TestBitset uses it: setBit calls, then init, then
\* selects.  The store and its callers stand still meanwhile.
\* the positions of TestBitset, and the first position
BitPositions == {0, 4, 5, 127, 128, 567}

\* where a run of consecutive set bits starts: two runs fill the first word
RunStarts == {0, 32}

\* a run has MaxRun - 1 or MaxRun bits
RunLengths == {c \in (MaxRun - 1)..MaxRun : c >= 1}

\* a bitset and the position of the next setBit of a run
runState(b, pos) == [b |-> b, pos |-> pos]

\* setBit(p, true) for p = st.pos, st.pos + 1, ... below to, in order
RECURSIVE setRunTo(_, _)
setRunTo(st, to) ==
  IF st.pos >= to THEN st
  ELSE IF st.pos + 1 = to THEN runState(setBit(st.b, st.pos, TRUE), to)
  ELSE setRunTo(setRunTo(st, (st.pos + to) \div 2), to)

\* setBit(from, true), setBit(from + 1, true), ... count calls
setRun(b, from, count) == setRunTo(runState(b, from), from + count).b

\* the arguments selects is called with on a vector of c set bits
SelectArgs(c) == {k \in {1, 2, 3, 63, 64, 65, c - 1, c, c + 1} : k >= 1 /\ k <= c + 1}

NoSelects == [nth |-> 0, pos |-> 0]

InitBits ==
  /\ Init
  /\ dict = <<>>

BitSet ==
  /\ bsPc \in {"open", "inited"}
  /\ \E pos \in BitPositions, value \in BOOLEAN :
       /\ bs' = setBit(bs, pos, value)
       /\ ones' = IF value THEN ones \cup {pos} ELSE ones \ {pos}
  /\ bsPc' = "open"
  /\ got' = NoSelects
  /\ UNCHANGED <<pc, fault, build, n, path, call, out, codec>>

BitSetRun ==
  /\ bsPc \in {"open", "inited"}
  /\ \E from \in RunStarts, count \in RunLengths :
       /\ bs' = setRun(bs, from, count)
       /\ ones' = ones \cup (from..(from + count - 1))
  /\ bsPc' = "open"
  /\ got' = NoSelects
  /\ UNCHANGED <<pc, fault, build, n, path, call, out, codec>>

BitInit ==
  /\ bsPc = "open"
  /\ LET b == init(bs)
     IN  /\ bs' = [bits |-> b.bits, ranks |-> b.ranks, sl |-> b.sl]
         /\ bsPc' = IF b.panic THEN "panic" ELSE "inited"
  /\ UNCHANGED <<pc, fault, build, n, path, call, out, codec, ones, got>>

BitSelects ==
  /\ bsPc = "inited"
  /\ \E nth \in SelectArgs(Cardinality(ones)) :
       got' = [nth |-> nth, pos |-> selects(bs, nth)]
  /\ UNCHANGED <<pc, fault, build, n, path, call, out, codec, bs, bsPc, ones>>

NextBits ==
  \/ BitSet
  \/ BitSetRun
  \/ BitInit
  \/ BitSelects

SpecBits == InitBits /\ [][NextBits]_vars

\* ------------------------------------------------------------- properties
\* the dictionary as a set of keys
DictSet == Range(dict)

IsPrefixOf(p, k) == Len(p) <= Len(k) /\ SubSeq(k, 1, Len(p)) = p

\* the greatest i in 1..|q| with q[0..i] a dictionary entry, 0 if there is none
LongestEntry(q) ==
  LET s == {j \in 1..Len(q) : SubSeq(q, 1, j) \in DictSet}
  IN  IF s = {} THEN 0 ELSE CHOOSE j \in s : \A k \in s : k <= j

\* the bytes that extend the byte path p towards some dictionary entry
Extensions(p) ==
  {k[Len(p) + 1] : k \in {e \in DictSet : Len(e) > Len(p) /\ IsPrefixOf(p, e)}}

\* the number of set bits of a bit vector
PopCount(b) == Cardinality({p \in 0..(64 * Len(b.bits) - 1) : getBit(b, p)})

\* the last call was made on the root cursor of the built store
OnRoot(op) == call.op = op /\ call.from.trie

\* C1: Root().SearchPrefix(q) is the length of the longest prefix of q that
\* is a dictionary entry, and 0 when no non-empty prefix of q is one.
C1_SearchPrefixLongest ==
  OnRoot("SearchPrefix") => pc = "built" /\ out = LongestEntry(call.arg)

\* C1 witness: a search that passed two shorter entries and stopped short of
\* the end of its key.
C1_Witness ==
  /\ OnRoot("SearchPrefix")
  /\ out = 3
  /\ Len(call.arg) = 4
  /\ SubSeq(call.arg, 1, 1) \in DictSet
  /\ SubSeq(call.arg, 1, 2) \in DictSet

\* C2 as claimed: Root().Search(k).Leaf() is true for every key k of the
\* dictionary.
C2_MembershipAllKeys ==
  OnRoot("Search") /\ call.arg \in DictSet => n.trie /\ Leaf(n)

\* C2 amended: Root().Search(k).Leaf() is true for every non-empty key k of
\* the dictionary.
C2_MembershipNonEmpty ==
  OnRoot("Search") /\ call.arg \in DictSet /\ call.arg # <<>> =>
    pc = "built" /\ n.trie /\ Leaf(n)

\* C2 witness: the search for an entry that ends at a node with children.
C2_Witness ==
  /\ OnRoot("Search")
  /\ call.arg \in DictSet
  /\ Len(call.arg) >= 2
  /\ n.trie /\ Leaf(n) /\ NodeSize(n) > 0

\* C3: Root().Search(q).Leaf() is false for every q that is not a dictionary
\* entry, whether the search ends on no node or on a node that is not marked.
C3_NoFalsePositive ==
  OnRoot("Search") /\ call.arg \notin DictSet => pc = "built" /\ ~Leaf(n)

\* C3 witness: a search for a non-entry that ends on an existing node.
C3_Witness ==
  /\ OnRoot("Search")
  /\ call.arg \notin DictSet
  /\ Len(call.arg) >= 1
  /\ n.trie /\ ~Leaf(n)

\* C4 as claimed: BuildSuccinctTrie runs to completion for every dictionary,
\* without a panic in its loop or in bitmap.init.
C4_BuildNeverFails == fault # "BuildSuccinctTrie"

\* the bytes C5 tries at a cursor: its children, their neighbours, and the
\* ends of the byte range
ProbeBytes(t, nd) ==
  {0, 97, 99, 255} \cup (UNION {{c - 1, c, c + 1} : c \in Range(Children(t, nd))} \cap Byte)

\* C5: at an existing cursor, Next(b) exists exactly when b is one of
\* Children(), and it is then the cursor of the child labelled b.
C5_NextFindsChild ==
  pc = "built" /\ n.trie /\ call.op \in {"Root", "Next"} =>
    \A b \in ProbeBytes(ret, n) :
      LET m == Next(ret, n, b)
          at == {k \in n.firstChild..(n.afterLastChild - 1) : ret.nodes[k + 1] = b}
      IN  /\ m # AbortNode
          /\ m.trie <=> b \in Range(Children(ret, n))
          /\ m.trie => \E k \in at : m = next(ret, n, k)
          /\ ~m.trie => at = {}

\* C5 witness: a cursor reached by Next whose 16 or more children are
\* searched by bisection.
C5_Witness ==
  /\ pc = "built"
  /\ call.op = "Next"
  /\ n.trie
  /\ NodeSize(n) >= 16

\* C6: the children of the node reached by the byte path p are the bytes b
\* with p followed by b a prefix of some entry, in strictly ascending order.
C6_ChildrenSorted ==
  pc = "built" /\ n.trie =>
    LET c == Children(ret, n) IN
    /\ Range(c) = Extensions(path)
    /\ \A j \in 1..(Len(c) - 1) : c[j] < c[j + 1]

\* C6 witness: a node below the root with two or more children.
C6_Witness ==
  /\ pc = "built"
  /\ n.trie
  /\ Len(path) >= 1
  /\ NodeSize(n) >= 2

\* C7: Size() is the number of distinct non-empty keys, and the number of
\* set bits of leaves.
C7_SizeCountsKeys ==
  pc = "built" =>
    /\ TrieSize(ret) = Cardinality(DictSet \ {<<>>})
    /\ TrieSize(ret) = PopCount(ret.leaves)

\* C7 witness: a store built from a dictionary with a repeated key and an
\* empty key.
C7_Witness ==
  /\ pc = "built"
  /\ <<>> \in DictSet
  /\ Len(dict) > Cardinality(DictSet)
  /\ TrieSize(ret) >= 1

\* C8: unmarshalling what Marshal wrote gives a store equal to the original
\* (labels, bits, ranks, select hints and size), on which Search, Children
\* and SearchPrefix return what they return on the original.
C8_RoundTrip ==
  call.op = "Unmarshal" /\ call.arg = buf =>
    /\ pc = "built" /\ ~err
    /\ dec = ret
    /\ Root(dec) = Root(ret)
    /\ \A k \in Range(dict) \cup TestKeys :
         LET a == Search(dec, Root(dec), k)
             b == Search(ret, Root(ret), k)
         IN  /\ a = b
             /\ Children(dec, a) = Children(ret, b)
             /\ SearchPrefix(dec, Root(dec), k) = SearchPrefix(ret, Root(ret), k)

\* C8 witness: the round trip of a store with entries and a topology of
\* several words, into a fresh store.
C8_Witness ==
  /\ call.op = "Unmarshal"
  /\ call.arg = buf
  /\ old = ZeroTrie
  /\ Len(dec.bitmap.bits) >= 2
  /\ dec.size >= 1

\* C9: Next and Search on a cursor that does not exist return a cursor that
\* does not exist, and do not panic.
C9_LostCursorStaysLost ==
  call.op \in {"Next", "Search"} /\ ~call.from.trie =>
    pc = "built" /\ n = ZeroNode

\* C9 witness: a Next on the cursor a failed Next returned.
C9_Witness ==
  /\ call.op = "Next"
  /\ ~call.from.trie
  /\ ret.size >= 1
  /\ n = ZeroNode

\* a stream is malformed when it does not decode, or decodes to a record
\* with no topology or with a size that is not the number of set leaves
Malformed(s) ==
  LET d == gobDecode(s) IN
  \/ d.err
  \/ Len(d.w.BitmapBits) = 0
  \/ d.w.Size # PopCount([bits |-> d.w.LeavesBits])

\* C10 as claimed: given malformed data Unmarshal returns an error, does not
\* panic, and leaves the store as it was.
C10_MalformedRejected ==
  call.op = "Unmarshal" /\ Malformed(call.arg) =>
    err /\ pc = "built" /\ dec = old


\* ------------------------------------------------------------- layout
\* The store, described from the set of keys alone.
\* the distinct non-empty keys of the dictionary
KeySet == DictSet \ {<<>>}

\* the nodes below the root: the non-empty prefixes of the keys
TrieNodes == UNION {{SubSeq(k, 1, j) : j \in 1..Len(k)} : k \in KeySet}

\* level order: shorter first, and byte-wise among equals in length
Before(a, b) == Len(a) < Len(b) \/ (Len(a) = Len(b) /\ StrLess(a, b))

\* the place of a node in level order, the root being 0
LevelIndex(p) == IF p = <<>> THEN 0 ELSE 1 + Cardinality({q \in TrieNodes : Before(q, p)})

Parent(p) == SubSeq(p, 1, Len(p) - 1)

\* s is the labels: a reserved byte, then the last byte of each node at its
\* place in level order
IsLayoutLabels(s) ==
  /\ Len(s) = Cardinality(TrieNodes) + 1
  /\ s[1] = 0
  /\ \A p \in TrieNodes : s[LevelIndex(p) + 1] = p[Len(p)]

\* node a comes before node b in level order, the root coming first
Earlier(a, b) == b # <<>> /\ (a = <<>> \/ Before(a, b))

\* topology: from position 1 on, a one for each node in level order, each
\* followed by a zero for each of its children, and a one at the end
LayoutTopology ==
  {1 + LevelIndex(p) + Cardinality({q \in TrieNodes : Earlier(Parent(q), p)})
     : p \in TrieNodes \cup {<<>>}}
    \cup {2 * Cardinality(TrieNodes) + 2}

\* leaves: the level-order places of the nodes that are keys
LayoutLeaves == {LevelIndex(p) : p \in KeySet}

\* the positions set in a bitset
OnesOf(b) == {p \in 0..(64 * Len(b.bits) - 1) : getBit(b, p)}

\* the number of words that hold the positions s and no more
WordsFor(s) == IF s = {} THEN 0 ELSE ((CHOOSE p \in s : \A q \in s : q <= p) \div 64) + 1

\* BuildSuccinctTrie has just returned
JustBuilt == pc = "built" /\ call.op = "none"

\* C11: the store BuildSuccinctTrie returns is determined by the set of
\* distinct non-empty keys: its labels, topology bits, leaves bits and size
\* are those of the layout of that set, whatever the order of the keys, their
\* repetitions and the empty strings among them; the root is not a leaf.
C11_BuildOfKeySet ==
  JustBuilt =>
    /\ IsLayoutLabels(ret.nodes)
    /\ OnesOf(ret.bitmap) = LayoutTopology
    /\ Len(ret.bitmap.bits) = WordsFor(LayoutTopology)
    /\ OnesOf(ret.leaves) = LayoutLeaves
    /\ Len(ret.leaves.bits) = WordsFor(LayoutLeaves)
    /\ ret.size = Cardinality(KeySet)
    /\ ~Leaf(Root(ret))

\* C11 witness: a store built from a dictionary that repeats a key, holds an
\* empty string, and has two keys of which one extends the other.
C11_Witness ==
  /\ JustBuilt
  /\ Len(dict) > Cardinality(DictSet)
  /\ <<>> \in DictSet
  /\ \E a \in KeySet, b \in KeySet : a # b /\ IsPrefixOf(a, b)

\* ------------------------------------------------------------- bitset
\* the k-th smallest of the positions s, -1 when s has fewer than k
KthOne(s, k) ==
  IF k > Cardinality(s) THEN -1
  ELSE CHOOSE p \in s : Cardinality({q \in s : q <= p}) = k

\* C12: on a bitset that setBit calls built and init finalized, selects(k)
\* for k >= 1 is the position of the k-th set bit, and -1 when fewer than k
\* bits are set; a bit that a later setBit(pos, false) cleared is not counted.
C12_SelectsKthOne ==
  got.nth >= 1 => bsPc = "inited" /\ got.pos = KthOne(ones, got.nth)

\* C12 witness: the vector of TestBitset, 567 set and cleared again, asked
\* for its third set bit, which lies in the second word.
C12_Witness ==
  /\ ones = {4, 5, 127, 128}
  /\ got.nth = 3
  /\ got.pos = 127

\* ------------------------------------------------------------- topology
\* bits 0 .. k-1 of a bitset, least significant first
FirstBits(b, k) == [p \in 1..k |-> IF getBit(b, p - 1) THEN 1 ELSE 0]

\* the dictionary of TestBuildSuccinctTrie has been built
HatBuilt == pc = "built" /\ DictSet = {Hat, Is, It, A}

\* C13 as claimed: topology has a one at bit position 0, and for the
\* dictionary "hat", "is", "it", "a" its bits 0..16 are
\* 1,1,1,1,0,1,0,0,1,0,1,1,0,0,0,1,0.
C13_TopologyLeadingOne ==
  pc = "built" =>
    /\ getBit(ret.bitmap, 0)
    /\ HatBuilt =>
         FirstBits(ret.bitmap, 17) = <<1, 1, 1, 1, 0, 1, 0, 0, 1, 0, 1, 1, 0, 0, 0, 1, 0>>

\* C13 amended: bit position 0 of topology is never set and the first one is
\* at position 1, and for the dictionary "hat", "is", "it", "a" its bits 0..16
\* are 0,1,0,0,0,1,1,0,1,0,0,1,0,1,1,1,1 (the claimed sequence is the word
\* printed most significant bit first).
C13_TopologyFromOne ==
  pc = "built" =>
    /\ ~getBit(ret.bitmap, 0)
    /\ getBit(ret.bitmap, 1)
    /\ HatBuilt =>
         FirstBits(ret.bitmap, 17) = <<0, 1, 0, 0, 0, 1, 1, 0, 1, 0, 0, 1, 0, 1, 1, 1, 1>>

\* C13 witness: the store of "hat", "is", "it", "a", with its seven labels
\* after the reserved byte.
C13_Witness ==
  /\ HatBuilt
  /\ ret.nodes = <<0, 97, 104, 105, 97, 115, 116, 116>>

\* C14 as claimed: init stays inside the select hints it allocates, whatever
\* the words hold (no word at all and 64 set bits in one or two words
\* included), the hints have n/2 + 1 + (n mod 2) entries for n words, and a
\* later selects(nth) with 1 <= nth <= popcount reads hints inside them too.
C14_HintsInRange ==
  /\ bsPc # "panic"
  /\ bsPc = "inited" =>
       /\ Len(bs.sl) = slLen(Len(bs.bits))
       /\ \A nth \in 1..Cardinality(ones) : (nth \div 64) + 1 < Len(bs.sl)

\* ------------------------------------------------------------- queue
\* the frames the queue holds, oldest first
Live(q) ==
  IF q.sz = 0 THEN <<>>
  ELSE [j \in 1..q.sz |-> q.data[((q.l + j - 1) % Len(q.data)) + 1]]

\* BuildSuccinctTrie is in its loop
Building == pc \in {"loop", "inner"}

\* the queue is within its room, and its frames are ranges of the sorted
\* dictionary, disjoint and not empty (but for the root frame of an empty
\* dictionary)
QueueInRoom ==
  Building =>
    /\ Len(queue.data) = (IF Len(dict) >= 1 THEN Len(dict) ELSE 1)
    /\ queue.sz <= Len(queue.data)
    /\ \A j \in 1..queue.sz :
         LET f == Live(queue)[j] IN
         /\ 0 <= f.l /\ f.l <= f.r /\ f.r <= Len(dict)
         /\ f.l < f.r \/ Len(dict) = 0
         /\ \A k \in (j + 1)..queue.sz :
              LET g == Live(queue)[k] IN f.r <= g.l \/ g.r <= f.l

\* a step leaves the frames alone, or adds one frame behind the others into
\* free room, or takes the oldest frame of a queue that is not empty into cur
QueueStep ==
  \/ Live(queue') = Live(queue)
  \/ /\ queue'.sz = queue.sz + 1
     /\ queue'.sz <= Len(queue'.data)
     /\ SubSeq(Live(queue'), 1, queue.sz) = Live(queue)
  \/ /\ queue.sz >= 1
     /\ Live(queue') = Tail(Live(queue))
     /\ cur' = Head(Live(queue))

C16_CursorInRange ==
  pc = "built" /\ n.trie =>
    /\ 1 <= n.firstChild
    /\ n.firstChild <= n.afterLastChild
    /\ n.afterLastChild <= Len(ret.nodes)
    /\ NodeSize(n) >= 0
    /\ Children(ret, n) = SubSeq(ret.nodes, n.firstChild + 1, n.afterLastChild)
    /\ selects(ret.bitmap, 1) >= 0
    /\ selects(ret.bitmap, 2) >= 0
    /\ \A k \in n.firstChild..(n.afterLastChild - 1) :
         /\ selects(ret.bitmap, k + 1) - k >= 0
         /\ selects(ret.bitmap, k + 2) >= 0

\* C16 witness: a cursor reached by Next that has no children, its empty
\* range lying inside the labels.
C16_Witness ==
  /\ pc = "built"
  /\ call.op = "Next"
  /\ n.trie
  /\ NodeSize(n) = 0
  /\ n.firstChild < Len(ret.nodes)

\* the label index of the edge the last Next took: the place of its byte
\* among the children of the cursor it was called on
EdgeTaken ==
  CHOOSE k \in call.from.firstChild..(call.from.afterLastChild - 1) :
    ret.nodes[k + 1] = call.arg[1]

\* C17: the cursor a successful Next returns, k being the label index of the
\* edge taken, has Leaf() equal to leaves.get(k), and Leaf() true when it has
\* no children; Leaf() is true exactly when a dictionary entry ends at the
\* node.
C17_LeafMeansEntry ==
  pc = "built" /\ call.op = "Next" /\ n.trie =>
    /\ NodeSize(n) = 0 => Leaf(n)
    /\ Leaf(n) = getBit(ret.leaves, EdgeTaken)
    /\ Leaf(n) <=> path \in DictSet

\* C17 witness: a Next that lands on a node at which an entry ends and
\* which has children.
C17_Witness ==
  /\ pc = "built"
  /\ call.op = "Next"
  /\ n.trie
  /\ Leaf(n)
  /\ NodeSize(n) >= 1
  /\ Len(path) >= 2

\* ------------------------------------------------------------- finalize
\* init has been applied to b: no trailing zero word, a rank table that
\* counts the set bits before each word and after the last, and select hints
\* of the allocated length whose first is 0 and whose last used is the last
\* word
Finalized(b) ==
  LET w == Len(b.bits)
      set == OnesOf(b)
  IN
  /\ w = 0 \/ b.bits[w] # ZeroWord
  /\ Len(b.ranks) = w + 1
  /\ \A j \in 0..w : b.ranks[j + 1] = Cardinality({p \in set : p < 64 * j})
  /\ Len(b.sl) = (w \div 2) + 1 + (w % 2)
  /\ b.sl[1] = 0
  /\ b.sl[(b.ranks[w + 1] \div 64) + 2] = w - 1

\* b is as setBit or the decoder left it: no rank table, no select hints
NotFinalized(b) == b.ranks = <<>> /\ b.sl = <<>>

\* Unmarshal has just returned nil
JustDecoded == pc = "built" /\ call.op = "Unmarshal" /\ ~err

\* C18 as claimed: when BuildSuccinctTrie returns, and when Unmarshal
\* returns without error, both topology and leaves are finalized.
C18_BothFinalized ==
  /\ JustBuilt => Finalized(ret.bitmap) /\ Finalized(ret.leaves)
  /\ JustDecoded => Finalized(dec.bitmap) /\ Finalized(dec.leaves)

\* C18 amended: when BuildSuccinctTrie returns, and when Unmarshal returns
\* without error, topology is finalized; leaves is not: it has no rank
\* table and no select hints, and its words are as setBit or the decoder
\* left them.
C18_TopologyFinalized ==
  /\ JustBuilt => Finalized(ret.bitmap) /\ NotFinalized(ret.leaves)
  /\ JustDecoded =>
       /\ Finalized(dec.bitmap) /\ NotFinalized(dec.leaves)
       /\ dec.leaves.bits = gobDecode(call.arg).w.LeavesBits

\* C18 witness: Unmarshal has returned nil with a store whose topology has
\* two words or more and whose leaves has a set bit.
C18_Witness ==
  /\ JustDecoded
  /\ Len(dec.bitmap.bits) >= 2
  /\ OnesOf(dec.leaves) # {}
  /\ Finalized(dec.bitmap)
  /\ NotFinalized(dec.leaves)
=============================================================================
